---- MODULE Spec2Model ----
(***************************************************************************)
(* The credential-keyed client pool of aila, in its three implementations: *)
(*   "ClientPool"    aila/client_pool.py            (class, lock + state)  *)
(*   "client_pool"   aila/client_pool_functional.py (closure, closed flag) *)
(*   "llm_interface" aila/llm_interface.py          (module-level _POOL)   *)
(* A behaviour runs one of the three (variant, fixed in Init) with the     *)
(* calls of a few threads interleaved at the points where the interpreter  *)
(* can switch threads and another thread can observe a difference: lock    *)
(* acquisition, the factory call, each close() call, the closed flag.      *)
(***************************************************************************)
EXTENDS Integers, Sequences, FiniteSets, TLC

\* ---- bounds of the model --------------------------------------------------
MaxTime == 3        \* the clock runs from 1 to MaxTime
MaxClients == 3     \* at most MaxClients successful factory calls
TtlSeconds == 1     \* ttl_seconds of the pool
MaxSize == 1        \* max_size of the pool that concurrent callers share
SeqMaxSize == 2     \* a single caller's pool has max_size in 1..SeqMaxSize
MaxAttempts == 3    \* with_retry is given attempts in 0..MaxAttempts

Threads == {"t1", "t2"}
NoThread == "none"
Variants == {"ClientPool", "client_pool", "llm_interface"}

\* ---- inputs ---------------------------------------------------------------
ProviderName == {"openai", "anthropic"}
ApiKeys == {"", "sk-A", "sk-B"}
\* the (provider, api_key) pairs the callers use
Requests ==
    { <<"openai", "">>, <<"openai", "sk-A">>, <<"openai", "sk-B">>,
      <<"anthropic", "sk-A">> }

\* no hashing: the key as it was given
PlainKey(api_key) == api_key

\* hashlib.sha256(api_key.encode("utf-8")).hexdigest(), by its first 12 digits
Sha256Hex(api_key) ==
    CASE api_key = "" -> "e3b0c44298fc"
      [] api_key = "sk-A" -> "753fc23ae3c8"
      [] api_key = "sk-B" -> "f26a1f561238"

\* the key without the provider: one key per api_key
sha_key_of_api_key_only(provider, api_key) == <<"openai", Sha256Hex(api_key)>>

sha_key(provider, api_key) == <<provider, Sha256Hex(api_key)>>

\* the check as `if api_key is None`: no string is rejected
ApiKeyRejectedOnlyIfNone(api_key) == FALSE

\* `if not api_key` / `if api_key == ""`
ApiKeyRejected(api_key) == api_key = ""

\* ---- the pool state and its pure transition functions --------------------
\* entries is the dict in its insertion order: a sequence of items, one per key
Item(key, client, last_used, created_at) ==
    [key |-> key, client |-> client, last_used |-> last_used,
     created_at |-> created_at]

PoolState(entries, ttl_seconds, max_size) ==
    [entries |-> entries, ttl_seconds |-> ttl_seconds, max_size |-> max_size]

KeysOf(entries) == {entries[i].key : i \in 1..Len(entries)}
ClientsOf(entries) == {entries[i].client : i \in 1..Len(entries)}
EntryAt(entries, key) ==
    entries[CHOOSE i \in 1..Len(entries) : entries[i].key = key]
\* [f(x) for x in seq]
KeySeq(items) == [i \in 1..Len(items) |-> items[i].key]
ClientSeq(items) == [i \in 1..Len(items) |-> items[i].client]
SeqRange(s) == {s[i] : i \in 1..Len(s)}
\* the comprehension without its filter: every entry stays
WithoutNothing(entries, victims) == entries

\* {k: v for k, v in entries.items() if k not in victims}
Without(entries, victims) ==
    SelectSeq(entries, LAMBDA e : e.key \notin SeqRange(victims))

\* the comparison as `>=`
ExpiredAtTtl(e, now, ttl_seconds) == now - e.last_used >= ttl_seconds

Expired(e, now, ttl_seconds) == now - e.last_used > ttl_seconds

purge_expired(pool, now) ==
    LET victims ==
            KeySeq(SelectSeq(pool.entries,
                             LAMBDA e : Expired(e, now, pool.ttl_seconds)))
    IN  IF victims = <<>>
        THEN <<pool, victims>>
        ELSE <<[pool EXCEPT !.entries = Without(pool.entries, victims)], victims>>

\* the entry is looked up but not touched
record_use_without_touch(pool, key, now) == pool

\* the touched entry is written as a new one: created_at is reset as well
record_use_renewing(pool, key, now) ==
    IF key \notin KeysOf(pool.entries)
    THEN pool
    ELSE [pool EXCEPT !.entries =
            [i \in 1..Len(pool.entries) |->
                IF pool.entries[i].key = key
                THEN Item(key, pool.entries[i].client, now, now)
                ELSE pool.entries[i]]]

record_use(pool, key, now) ==
    IF key \notin KeysOf(pool.entries)
    THEN pool
    ELSE [pool EXCEPT !.entries =
            [i \in 1..Len(pool.entries) |->
                IF pool.entries[i].key = key
                THEN Item(key, pool.entries[i].client, now,
                          pool.entries[i].created_at)
                ELSE pool.entries[i]]]

\* new_entries[key] = Entry(...): an existing key keeps its place in the dict
insert_entry(pool, key, client, now) ==
    IF key \in KeysOf(pool.entries)
    THEN [pool EXCEPT !.entries =
            [i \in 1..Len(pool.entries) |->
                IF pool.entries[i].key = key
                THEN Item(key, client, now, now)
                ELSE pool.entries[i]]]
    ELSE [pool EXCEPT !.entries = Append(pool.entries, Item(key, client, now, now))]

\* an unstable sort: an item goes before the items of equal last_used
RECURSIVE InsertBeforeEqual(_, _)
InsertBeforeEqual(e, s) ==
    IF s = <<>> THEN <<e>>
    ELSE IF e.last_used <= Head(s).last_used THEN <<e>> \o s
    ELSE <<Head(s)>> \o InsertBeforeEqual(e, Tail(s))

\* sorted(items, key=last_used): ascending and stable
RECURSIVE InsertByLastUsed(_, _)
InsertByLastUsed(e, s) ==
    IF s = <<>> THEN <<e>>
    ELSE IF e.last_used < Head(s).last_used THEN <<e>> \o s
    ELSE <<Head(s)>> \o InsertByLastUsed(e, Tail(s))

RECURSIVE SortedByLastUsed(_)
SortedByLastUsed(s) ==
    IF s = <<>> THEN <<>>
    ELSE InsertByLastUsed(s[Len(s)], SortedByLastUsed(SubSeq(s, 1, Len(s) - 1)))

\* ordered[-to_remove:]: the most recently used
EvictionVictimsNewest(pool) ==
    LET ordered == SortedByLastUsed(pool.entries)
        to_remove == Len(pool.entries) - pool.max_size
    IN  SubSeq(ordered, Len(ordered) - to_remove + 1, Len(ordered))

\* to_remove one too small
EvictionVictimsOneShort(pool) ==
    LET ordered == SortedByLastUsed(pool.entries)
        to_remove == Len(pool.entries) - pool.max_size - 1
    IN  SubSeq(ordered, 1, to_remove)

\* to_remove one too large
EvictionVictimsOneMore(pool) ==
    LET ordered == SortedByLastUsed(pool.entries)
        to_remove == Len(pool.entries) - pool.max_size + 1
    IN  SubSeq(ordered, 1, to_remove)

\* ordered[:to_remove]
EvictionVictims(pool) ==
    LET ordered == SortedByLastUsed(pool.entries)
        to_remove == Len(pool.entries) - pool.max_size
    IN  SubSeq(ordered, 1, to_remove)

evict_if_needed(pool) ==
    IF Len(pool.entries) <= pool.max_size
    THEN <<pool, <<>>, <<>>>>
    ELSE LET victims == KeySeq(EvictionVictims(pool))
             victims_clients ==
                 [i \in 1..Len(victims) |-> EntryAt(pool.entries, victims[i]).client]
         IN  <<[pool EXCEPT !.entries = Without(pool.entries, victims)],
               victims, victims_clients>>

ensure_entry(pool, provider, api_key, now) ==
    LET key == sha_key(provider, api_key)
        purged == purge_expired(pool, now)
    IN  <<key \in KeysOf(purged[1].entries), key, purged[1], purged[2]>>


\* ---- the running program --------------------------------------------------
VARIABLES
    variant,      \* which of the three implementations runs
    state,        \* self._state / state / (_POOL with the module constants)
    lock,         \* the thread inside `with lock`, or NoThread
    closed,       \* client_pool's `closed` flag
    clock,        \* time.monotonic() / time.time()
    next_client,  \* the handle the next successful factory call returns
    close_calls,  \* close_calls[c]: how often close() of handle c was invoked
    pc,           \* where each thread is
    req,          \* (provider, api_key) of the thread's get_client call
    now,          \* the call's `now`
    key,          \* the call's `key` / `idx`
    to_close,     \* the call's `to_close` / `entries` / handles being closed
    client,       \* the call's `client`
    result,       \* what the thread's last call returned or raised
    entries_before,    \* the entries when the thread in the factory took the lock
    live_at_shutdown,  \* the handles in the pool when the thread called shutdown
    served,       \* per tracked key: the handle it was last served with and that
                  \* call's `now`, until the key is evicted or the pool shut down
    shutdown_calls,    \* how many of client_pool's shutdown call sites have run
    faulty,       \* the handles whose close() raises
    retry         \* a call of with_retry(fn, attempts)'s wrapped function

pool_vars == <<variant, state, lock, closed, clock, next_client, close_calls, pc,
               req, now, key, to_close, client, result, entries_before,
               live_at_shutdown, served, shutdown_calls, faulty>>

vars == <<pool_vars, retry>>

\* ---- with_retry (tests/test_llm_interface_functional.py) -------------------
\* what one call of fn does: it returns a string or raises
FnReturns == {"OK", "recovered"}
FnRaises == {"TimeoutError", "ValueError"}
FnOutcomes == FnReturns \cup FnRaises
\* with_retry has not been called
NotCalled == [attempts |-> 0, script |-> <<>>, calls |-> 0, i |-> 0,
              last_err |-> "None", result |-> "None", raised |-> "None",
              running |-> FALSE]

\* `except Exception`: any error of fn is retried
CaughtAnyError(outcome) == outcome \in FnRaises

\* `except TimeoutError as e`
Caught(outcome) == outcome = "TimeoutError"

NoReq == <<"none", "none">>
NoKey == <<"none", "none">>
None == 0
NoResult == [kind |-> "none", client |-> None]
Returned(c) == [kind |-> "returned", client |-> c]
Raised(e) == [kind |-> e, client |-> None]
ShutdownDone == [kind |-> "shutdown", client |-> None]

Clients == 1..MaxClients
PoolKeys == {sha_key(r[1], r[2]) : r \in Requests}
Unserved == [client |-> None, at |-> 0]

\* the pool after construction, max_size one of sizes; the calls for the keys
\* in `tracked` are recorded in served; the handles the factory will return whose
\* close() raises are one of `faults`
Constructed(sizes, tracked, faults) ==
    /\ variant \in Variants
    /\ \E max_size \in sizes : state = PoolState(<<>>, TtlSeconds, max_size)
    /\ lock = NoThread
    /\ closed = FALSE
    /\ clock = 1
    /\ next_client = 1
    /\ close_calls = [c \in Clients |-> 0]
    /\ pc = [t \in Threads |-> "idle"]
    /\ req = [t \in Threads |-> NoReq]
    /\ now = [t \in Threads |-> 0]
    /\ key = [t \in Threads |-> NoKey]
    /\ to_close = [t \in Threads |-> <<>>]
    /\ client = [t \in Threads |-> None]
    /\ result = [t \in Threads |-> NoResult]
    /\ entries_before = <<>>
    /\ live_at_shutdown = [t \in Threads |-> {}]
    /\ served = [k \in tracked |-> Unserved]
    /\ shutdown_calls = 0
    /\ faulty \in faults
    /\ retry = NotCalled

Init == Constructed({MaxSize}, {}, {{}})

\* the call's local variables go out of scope
Forget(t) ==
    /\ req' = [req EXCEPT ![t] = NoReq]
    /\ now' = [now EXCEPT ![t] = 0]
    /\ key' = [key EXCEPT ![t] = NoKey]
    /\ to_close' = [to_close EXCEPT ![t] = <<>>]
    /\ client' = [client EXCEPT ![t] = None]

\* _maybe_close(obj): close() is invoked once
MaybeClose(c) == close_calls' = [close_calls EXCEPT ![c] = @ + 1]

\* closer() raises, an error of class CloseError
CloseRaises(c) == c \in faulty
CloseError == "OSError"
\* the classes `except Exception` catches
ExceptionClasses ==
    {"Exception", "OSError", "RuntimeError", "ValueError", "TimeoutError"}

\* _maybe_close without its try/except: what closer() raises leaves it
EscapesIfCloseRaises(c) == CloseRaises(c)

\* try: closer() / except Exception: pass -- what closer() raises leaves
\* _maybe_close only if the except clause does not catch it
Escapes(c) == CloseRaises(c) /\ CloseError \notin ExceptionClasses

\* an exception leaves _maybe_close in thread t's call: it ends the loop and the
\* call, and a `with` block it passes releases the lock
CloseEscapes(t, c) ==
    /\ MaybeClose(c)
    /\ result' = [result EXCEPT ![t] = Raised(CloseError)]
    /\ pc' = [pc EXCEPT ![t] = "idle"]
    /\ lock' = IF lock = t THEN NoThread ELSE lock
    /\ entries_before' = IF lock = t THEN <<>> ELSE entries_before
    /\ Forget(t)
    /\ UNCHANGED <<served, variant, faulty, retry, shutdown_calls, state, closed, clock,
                   next_client, live_at_shutdown>>

\* the call for key k took effect at `at` and yields handle c; the keys of
\* `gone` were evicted
Serve(k, c, at, gone) ==
    served' = [x \in DOMAIN served |->
                  IF x \in gone THEN Unserved
                  ELSE IF x = k THEN [client |-> c, at |-> at]
                  ELSE served[x]]

\* time passes
Tick ==
    /\ clock < MaxTime
    /\ clock' = clock + 1
    /\ UNCHANGED <<served, variant, faulty, retry, shutdown_calls, state, lock, closed, next_client, close_calls, pc, req,
                   now, key, to_close, client, result, entries_before,
                   live_at_shutdown>>

\* get_client(provider, api_key, factory) up to `with lock`
GetClientCall(t, provider, api_key) ==
    /\ pc[t] = "idle"
    /\ live_at_shutdown' = [live_at_shutdown EXCEPT ![t] = {}]
    /\ IF ApiKeyRejected(api_key)
       THEN /\ result' = [result EXCEPT ![t] = Raised("ValueError")]
            /\ UNCHANGED <<pc, req, now>>
       ELSE /\ result' = [result EXCEPT ![t] = NoResult]
            /\ pc' = [pc EXCEPT ![t] = "acquire"]
            /\ req' = [req EXCEPT ![t] = <<provider, api_key>>]
            /\ now' = [now EXCEPT ![t] = clock]
    /\ UNCHANGED <<served, variant, faulty, retry, shutdown_calls, state, lock, closed, clock, next_client, close_calls,
                   key, to_close, client, entries_before>>

\* ClientPool.get_client / client_pool.get_client: the lock is taken, the expired
\* entries leave the state; a hit ends the `with` block, a miss calls the factory
Acquire(t) ==
    /\ variant \in {"ClientPool", "client_pool"}
    /\ pc[t] = "acquire"
    /\ lock = NoThread
    /\ LET r == ensure_entry(state, req[t][1], req[t][2], now[t])
           exists == r[1]
           k == r[2]
           pool2 == r[3]
           keys_to_close == r[4]
           purged == [i \in 1..Len(keys_to_close) |->
                        EntryAt(state.entries, keys_to_close[i]).client]
       IN  /\ to_close' = [to_close EXCEPT ![t] = purged]
           /\ key' = [key EXCEPT ![t] = k]
           /\ IF exists
              THEN /\ state' = record_use(pool2, k, now[t])
                   /\ client' = [client EXCEPT ![t] = EntryAt(state'.entries, k).client]
                   /\ pc' = [pc EXCEPT ![t] = "close"]
                   /\ Serve(k, client'[t], now[t], {})
                   /\ UNCHANGED <<lock, entries_before>>
              ELSE /\ state' = pool2
                   /\ lock' = t
                   /\ entries_before' = state.entries
                   /\ pc' = [pc EXCEPT ![t] = "factory"]
                   /\ UNCHANGED <<client, served>>
    /\ UNCHANGED <<variant, faulty, retry, shutdown_calls, closed, clock, next_client, close_calls, req, now,
                   result, live_at_shutdown>>

\* factory(api_key) returns a new handle: insert, evict, leave the `with` block
FactoryReturns(t) ==
    /\ variant \in {"ClientPool", "client_pool"}
    /\ pc[t] = "factory"
    /\ next_client <= MaxClients
    /\ LET inserted == insert_entry(state, key[t], next_client, now[t])
           evicted == evict_if_needed(inserted)
       IN  /\ state' = evicted[1]
           /\ to_close' = [to_close EXCEPT ![t] = @ \o evicted[3]]
           /\ Serve(key[t], next_client, now[t], SeqRange(evicted[2]))
    /\ client' = [client EXCEPT ![t] = next_client]
    /\ next_client' = next_client + 1
    /\ lock' = NoThread
    /\ entries_before' = <<>>
    /\ pc' = [pc EXCEPT ![t] = "close"]
    /\ UNCHANGED <<variant, faulty, retry, shutdown_calls, closed, clock, close_calls, req, now, key, result,
                   live_at_shutdown>>

\* the entry is written before the factory is called: a raise leaves it behind
FactoryRaisesLeavingEntry(t) ==
    /\ pc[t] = "factory"
    /\ state' = insert_entry(state, key[t], None, now[t])
    /\ lock' = NoThread
    /\ entries_before' = <<>>
    /\ pc' = [pc EXCEPT ![t] = "idle"]
    /\ result' = [result EXCEPT ![t] = Raised("FactoryError")]
    /\ Forget(t)
    /\ UNCHANGED <<served, variant, faulty, retry, shutdown_calls, closed, clock, next_client,
                   close_calls, live_at_shutdown>>

\* the exception leaves get_client without leaving the `with` block: the lock
\* stays with the caller
FactoryRaisesHoldingLock(t) ==
    /\ pc[t] = "factory"
    /\ entries_before' = <<>>
    /\ pc' = [pc EXCEPT ![t] = "idle"]
    /\ result' = [result EXCEPT ![t] = Raised("FactoryError")]
    /\ Forget(t)
    /\ UNCHANGED <<served, variant, faulty, retry, shutdown_calls, state, lock, closed, clock, next_client,
                   close_calls, live_at_shutdown>>

\* factory(api_key) / _make_client raises: the exception leaves the `with` block
FactoryRaises(t) ==
    /\ pc[t] = "factory"
    /\ lock' = NoThread
    /\ entries_before' = <<>>
    /\ pc' = [pc EXCEPT ![t] = "idle"]
    /\ result' = [result EXCEPT ![t] = Raised("FactoryError")]
    /\ Forget(t)
    /\ UNCHANGED <<served, variant, faulty, retry, shutdown_calls, state, closed, clock, next_client, close_calls,
                   live_at_shutdown>>

\* for c in to_close: self._maybe_close(c)
CloseNext(t) ==
    /\ pc[t] = "close"
    /\ to_close[t] # <<>>
    /\ IF Escapes(Head(to_close[t]))
       THEN CloseEscapes(t, Head(to_close[t]))
       ELSE /\ MaybeClose(Head(to_close[t]))
            /\ to_close' = [to_close EXCEPT ![t] = Tail(@)]
            /\ UNCHANGED <<served, variant, faulty, retry, shutdown_calls, state, lock, closed, clock, next_client, pc, req, now,
                           key, client, result, entries_before, live_at_shutdown>>

\* return client
Return(t) ==
    /\ pc[t] = "close"
    /\ to_close[t] = <<>>
    /\ result' = [result EXCEPT ![t] = Returned(client[t])]
    /\ pc' = [pc EXCEPT ![t] = "idle"]
    /\ Forget(t)
    /\ UNCHANGED <<served, variant, faulty, retry, shutdown_calls, state, lock, closed, clock, next_client, close_calls,
                   entries_before, live_at_shutdown>>


\* the places client_pool() calls its shutdown from: atexit.register(shutdown)
\* and the `finally` of the context manager; each runs once
ShutdownCallSites == {"atexit", "finally"}

\* shutdown() up to `with lock`; client_pool's shutdown first reads `closed`
ShutdownCall(t) ==
    /\ pc[t] = "idle"
    /\ IF variant = "client_pool"
       THEN /\ shutdown_calls < Cardinality(ShutdownCallSites)
            /\ shutdown_calls' = shutdown_calls + 1
       ELSE UNCHANGED shutdown_calls
    /\ live_at_shutdown' = [live_at_shutdown EXCEPT ![t] = ClientsOf(state.entries)]
    /\ IF variant = "client_pool" /\ closed
       THEN /\ result' = [result EXCEPT ![t] = ShutdownDone]
            /\ UNCHANGED pc
       ELSE /\ result' = [result EXCEPT ![t] = NoResult]
            /\ pc' = [pc EXCEPT ![t] =
                        IF variant = "client_pool" THEN "sd_set_closed"
                        ELSE "sd_acquire"]
    /\ UNCHANGED <<served, variant, faulty, retry, state, lock, closed, clock, next_client,
                   close_calls, req, now, key, to_close, client, entries_before>>

\* client_pool.shutdown: closed = True
SetClosed(t) ==
    /\ pc[t] = "sd_set_closed"
    /\ closed' = TRUE
    /\ pc' = [pc EXCEPT ![t] = "sd_acquire"]
    /\ UNCHANGED <<served, variant, faulty, retry, shutdown_calls, state, lock, clock, next_client, close_calls, req, now,
                   key, to_close, client, result, entries_before, live_at_shutdown>>

\* the `with lock` block without the swap: the entries stay in the state
ShutdownWithoutSwap(t) ==
    /\ variant \in {"ClientPool", "client_pool"}
    /\ pc[t] = "sd_acquire"
    /\ lock = NoThread
    /\ to_close' = [to_close EXCEPT ![t] = ClientSeq(state.entries)]
    /\ pc' = [pc EXCEPT ![t] = "sd_close"]
    /\ UNCHANGED <<served, variant, faulty, retry, shutdown_calls, state, lock, closed, clock, next_client,
                   close_calls, req, now, key, client, result, entries_before,
                   live_at_shutdown>>

\* ClientPool.shutdown / client_pool.shutdown: the `with lock` block, which swaps
\* the state for an empty one
ShutdownSwap(t) ==
    /\ variant \in {"ClientPool", "client_pool"}
    /\ pc[t] = "sd_acquire"
    /\ lock = NoThread
    /\ to_close' = [to_close EXCEPT ![t] = ClientSeq(state.entries)]
    /\ state' = PoolState(<<>>, state.ttl_seconds, state.max_size)
    /\ served' = [k \in DOMAIN served |-> Unserved]
    /\ pc' = [pc EXCEPT ![t] = "sd_close"]
    /\ UNCHANGED <<variant, faulty, retry, shutdown_calls, lock, closed, clock, next_client, close_calls, req, now,
                   key, client, result, entries_before, live_at_shutdown>>

\* for e in entries: self._maybe_close(e.client)
ShutdownCloseNext(t) ==
    /\ pc[t] = "sd_close"
    /\ to_close[t] # <<>>
    /\ IF Escapes(Head(to_close[t]))
       THEN CloseEscapes(t, Head(to_close[t]))
       ELSE /\ MaybeClose(Head(to_close[t]))
            /\ to_close' = [to_close EXCEPT ![t] = Tail(@)]
            /\ UNCHANGED <<served, variant, faulty, retry, shutdown_calls, state, lock, closed, clock, next_client, pc, req, now,
                           key, client, result, entries_before, live_at_shutdown>>

ShutdownReturn(t) ==
    /\ pc[t] = "sd_close"
    /\ to_close[t] = <<>>
    /\ result' = [result EXCEPT ![t] = ShutdownDone]
    /\ pc' = [pc EXCEPT ![t] = "idle"]
    /\ Forget(t)
    /\ UNCHANGED <<served, variant, faulty, retry, shutdown_calls, state, lock, closed, clock, next_client, close_calls,
                   entries_before, live_at_shutdown>>

\* ---- llm_interface: everything happens inside `with _LOCK` ----------------
\* ts = time.time(): the time of the purge, not the call's `now`
PurgeTimestampWallClock(n) == clock

\* ts = now or time.time()
PurgeTimestamp(n) == IF n = 0 THEN clock ELSE n

\* with _LOCK: _purge_expired(now) pops the expired entries; each is closed
LlmAcquire(t) ==
    /\ variant = "llm_interface"
    /\ pc[t] = "acquire"
    /\ lock = NoThread
    /\ lock' = t
    /\ LET purged == purge_expired(state, PurgeTimestamp(now[t]))
           expired_keys == purged[2]
       IN  /\ state' = purged[1]
           /\ to_close' = [to_close EXCEPT ![t] =
                  [i \in 1..Len(expired_keys) |->
                      EntryAt(state.entries, expired_keys[i]).client]]
    /\ key' = [key EXCEPT ![t] = <<req[t][1], Sha256Hex(req[t][2])>>]
    /\ entries_before' = state.entries
    /\ pc' = [pc EXCEPT ![t] = "purge_close"]
    /\ UNCHANGED <<served, variant, faulty, retry, shutdown_calls, closed, clock, next_client, close_calls, req, now,
                   client, result, live_at_shutdown>>

\* _maybe_close(entry["client"]) in _purge_expired
LlmPurgeClose(t) ==
    /\ pc[t] = "purge_close"
    /\ to_close[t] # <<>>
    /\ IF Escapes(Head(to_close[t]))
       THEN CloseEscapes(t, Head(to_close[t]))
       ELSE /\ MaybeClose(Head(to_close[t]))
            /\ to_close' = [to_close EXCEPT ![t] = Tail(@)]
            /\ UNCHANGED <<served, variant, faulty, retry, shutdown_calls, state, lock, closed, clock, next_client, pc, req, now,
                           key, client, result, entries_before, live_at_shutdown>>

\* entry = _POOL.get(idx): a hit touches the entry and returns its client
LlmLookup(t) ==
    /\ pc[t] = "purge_close"
    /\ to_close[t] = <<>>
    /\ IF key[t] \in KeysOf(state.entries)
       THEN /\ state' = record_use(state, key[t], now[t])
            /\ result' = [result EXCEPT ![t] =
                            Returned(EntryAt(state.entries, key[t]).client)]
            /\ lock' = NoThread
            /\ entries_before' = <<>>
            /\ pc' = [pc EXCEPT ![t] = "idle"]
            /\ Serve(key[t], EntryAt(state.entries, key[t]).client, now[t], {})
            /\ Forget(t)
       ELSE /\ pc' = [pc EXCEPT ![t] = "factory"]
            /\ UNCHANGED <<state, result, lock, entries_before, req, now, key,
                           to_close, client, served>>
    /\ UNCHANGED <<variant, faulty, retry, shutdown_calls, closed, clock, next_client, close_calls,
                   live_at_shutdown>>

\* client = _make_client(...); _POOL[idx] = ...; _evict_if_needed() picks its victims
LlmMakeClientReturns(t) ==
    /\ variant = "llm_interface"
    /\ pc[t] = "factory"
    /\ next_client <= MaxClients
    /\ state' = insert_entry(state, key[t], next_client, now[t])
    /\ to_close' = [to_close EXCEPT ![t] =
          IF Len(state'.entries) <= state'.max_size THEN <<>>
          ELSE ClientSeq(EvictionVictims(state'))]
    /\ Serve(key[t], next_client, now[t], {})
    /\ client' = [client EXCEPT ![t] = next_client]
    /\ next_client' = next_client + 1
    /\ pc' = [pc EXCEPT ![t] = "evict_close"]
    /\ UNCHANGED <<variant, faulty, retry, shutdown_calls, lock, closed, clock, close_calls, req, now, key, result,
                   entries_before, live_at_shutdown>>

\* _evict_if_needed: _maybe_close(entry["client"]), the entry still in _POOL
LlmEvictClose(t) ==
    /\ pc[t] = "evict_close"
    /\ to_close[t] # <<>>
    /\ IF Escapes(Head(to_close[t]))
       THEN CloseEscapes(t, Head(to_close[t]))
       ELSE /\ MaybeClose(Head(to_close[t]))
            /\ pc' = [pc EXCEPT ![t] = "evict_pop"]
            /\ UNCHANGED <<served, variant, faulty, retry, shutdown_calls, state, lock, closed, clock, next_client, req, now, key,
                           to_close, client, result, entries_before, live_at_shutdown>>

\* _evict_if_needed: _POOL.pop(key, None)
LlmEvictPop(t) ==
    /\ pc[t] = "evict_pop"
    /\ state' = [state EXCEPT !.entries =
                    SelectSeq(@, LAMBDA e : e.client # Head(to_close[t]))]
    /\ served' = [k \in DOMAIN served |->
                    IF k \in KeysOf(state.entries) \ KeysOf(state'.entries)
                    THEN Unserved ELSE served[k]]
    /\ to_close' = [to_close EXCEPT ![t] = Tail(@)]
    /\ pc' = [pc EXCEPT ![t] = "evict_close"]
    /\ UNCHANGED <<variant, faulty, retry, shutdown_calls, lock, closed, clock, next_client, close_calls, req, now,
                   key, client, result, entries_before, live_at_shutdown>>

\* return client, leaving `with _LOCK`
LlmReturn(t) ==
    /\ pc[t] = "evict_close"
    /\ to_close[t] = <<>>
    /\ result' = [result EXCEPT ![t] = Returned(client[t])]
    /\ lock' = NoThread
    /\ entries_before' = <<>>
    /\ pc' = [pc EXCEPT ![t] = "idle"]
    /\ Forget(t)
    /\ UNCHANGED <<served, variant, faulty, retry, shutdown_calls, state, closed, clock, next_client, close_calls,
                   live_at_shutdown>>

\* _shutdown_client_pool: with _LOCK: for entry in list(_POOL.values())
LlmShutdownAcquire(t) ==
    /\ variant = "llm_interface"
    /\ pc[t] = "sd_acquire"
    /\ lock = NoThread
    /\ lock' = t
    /\ to_close' = [to_close EXCEPT ![t] = ClientSeq(state.entries)]
    /\ pc' = [pc EXCEPT ![t] = "sd_close_locked"]
    /\ UNCHANGED <<served, variant, faulty, retry, shutdown_calls, state, closed, clock, next_client, close_calls, req,
                   now, key, client, result, entries_before, live_at_shutdown>>

\* _maybe_close(entry["client"]), the entries still in _POOL
LlmShutdownClose(t) ==
    /\ pc[t] = "sd_close_locked"
    /\ to_close[t] # <<>>
    /\ IF Escapes(Head(to_close[t]))
       THEN CloseEscapes(t, Head(to_close[t]))
       ELSE /\ MaybeClose(Head(to_close[t]))
            /\ to_close' = [to_close EXCEPT ![t] = Tail(@)]
            /\ UNCHANGED <<served, variant, faulty, retry, shutdown_calls, state, lock, closed, clock, next_client, pc, req, now,
                           key, client, result, entries_before, live_at_shutdown>>

\* _POOL.clear(), leaving `with _LOCK`
LlmShutdownClear(t) ==
    /\ pc[t] = "sd_close_locked"
    /\ to_close[t] = <<>>
    /\ state' = [state EXCEPT !.entries = <<>>]
    /\ served' = [k \in DOMAIN served |-> Unserved]
    /\ lock' = NoThread
    /\ result' = [result EXCEPT ![t] = ShutdownDone]
    /\ pc' = [pc EXCEPT ![t] = "idle"]
    /\ Forget(t)
    /\ UNCHANGED <<variant, faulty, retry, shutdown_calls, closed, clock, next_client, close_calls,
                   entries_before, live_at_shutdown>>

\* one step of thread t
Step(t) ==
    \/ \E r \in Requests : GetClientCall(t, r[1], r[2])
    \/ Acquire(t)
    \/ FactoryReturns(t)
    \/ FactoryRaises(t)
    \/ CloseNext(t)
    \/ Return(t)
    \/ ShutdownCall(t)
    \/ SetClosed(t)
    \/ ShutdownSwap(t)
    \/ ShutdownCloseNext(t)
    \/ ShutdownReturn(t)
    \/ LlmAcquire(t)
    \/ LlmPurgeClose(t)
    \/ LlmLookup(t)
    \/ LlmMakeClientReturns(t)
    \/ LlmEvictClose(t)
    \/ LlmEvictPop(t)
    \/ LlmReturn(t)
    \/ LlmShutdownAcquire(t)
    \/ LlmShutdownClose(t)
    \/ LlmShutdownClear(t)

\* the threads call into the pool concurrently
Next == Tick \/ \E t \in Threads : Step(t)

Spec == Init /\ [][Next]_vars

\* the steps in which thread t enters a `with self._lock` block
TakesLock(t) == Acquire(t) \/ ShutdownSwap(t)

\* the steps of a call of thread t that wait for nothing
Proceeds(t) ==
    \/ FactoryReturns(t)
    \/ FactoryRaises(t)
    \/ CloseNext(t)
    \/ Return(t)
    \/ ShutdownCloseNext(t)
    \/ ShutdownReturn(t)

\* a running thread goes on running, the factory and close() come back, and a
\* thread waiting in lock.acquire() gets the lock if it is free again and again
Fairness ==
    \A t \in Threads : WF_vars(Proceeds(t)) /\ SF_vars(TakesLock(t))

\* the threads share one ClientPool object
InitLive == Init /\ variant = "ClientPool"

\* the api_key arguments of the threads: one credential they share, or none
LiveKeys == {"", "sk-A"}

\* one step of thread t on a ClientPool: get_client, for the one provider the
\* threads use, and shutdown
ClientPoolStep(t) ==
    \/ \E api_key \in LiveKeys : GetClientCall(t, "openai", api_key)
    \/ Acquire(t)
    \/ FactoryReturns(t)
    \/ FactoryRaises(t)
    \/ CloseNext(t)
    \/ Return(t)
    \/ ShutdownCall(t)
    \/ ShutdownSwap(t)
    \/ ShutdownCloseNext(t)
    \/ ShutdownReturn(t)

NextLive == Tick \/ \E t \in Threads : ClientPoolStep(t)

LiveSpec == InitLive /\ [][NextLive]_vars /\ Fairness

\* a single caller: one call after the other
InitSeq == Constructed(1..SeqMaxSize, PoolKeys, {{}})

NextSeq == Tick \/ Step("t1")

SeqSpec == InitSeq /\ [][NextSeq]_vars

\* a single caller of a pool some of whose handles fail to close
InitFault == Constructed(1..SeqMaxSize, {}, SUBSET Clients)

FaultSpec == InitFault /\ [][NextSeq]_vars

\* two threads each make one get_client call, their first, for the same key,
\* and each begins it before the other has taken the lock
RaceRequest == <<"openai", "sk-A">>

FirstCall(t) ==
    /\ result[t] = NoResult
    /\ \A u \in Threads :
          pc[u] = "acquire" \/ (pc[u] = "idle" /\ result[u] = NoResult)
    /\ GetClientCall(t, RaceRequest[1], RaceRequest[2])

RaceNext ==
    \/ Tick
    \/ \E t \in Threads :
        \/ FirstCall(t)
        \/ Acquire(t)
        \/ FactoryReturns(t)
        \/ FactoryRaises(t)
        \/ CloseNext(t)
        \/ Return(t)
        \/ LlmAcquire(t)
        \/ LlmPurgeClose(t)
        \/ LlmLookup(t)
        \/ LlmMakeClientReturns(t)
        \/ LlmReturn(t)

RaceSpec == Init /\ [][RaceNext]_vars

\* ---- with_retry(fn, attempts)(prompt) --------------------------------------
\* wrapped(prompt) is called: script[j] is what fn does when it is called the
\* j-th time
RetryCall ==
    /\ ~retry.running
    /\ \E n \in 0..MaxAttempts : \E script \in [1..MaxAttempts -> FnOutcomes] :
          retry' = [attempts |-> n, script |-> script, calls |-> 0, i |-> 0,
                    last_err |-> "None", result |-> "None", raised |-> "None",
                    running |-> TRUE]
    /\ UNCHANGED pool_vars

\* one pass of `for _ in range(attempts)`: try: return fn(prompt)
RetryAttempt ==
    /\ retry.running
    /\ retry.i < retry.attempts
    /\ LET outcome == retry.script[retry.calls + 1]
       IN  retry' =
             IF outcome \in FnReturns
             THEN [retry EXCEPT !.calls = @ + 1, !.result = outcome, !.running = FALSE]
             ELSE IF Caught(outcome)
             THEN [retry EXCEPT !.calls = @ + 1, !.last_err = outcome, !.i = @ + 1]
             ELSE [retry EXCEPT !.calls = @ + 1, !.raised = outcome, !.running = FALSE]
    /\ UNCHANGED pool_vars

\* the loop is over: raise RuntimeError("unrecoverable") from last_err
RetryGivesUp ==
    /\ retry.running
    /\ retry.i >= retry.attempts
    /\ retry' = [retry EXCEPT !.raised = "RuntimeError", !.running = FALSE]
    /\ UNCHANGED pool_vars

NextRetry == RetryCall \/ RetryAttempt \/ RetryGivesUp

RetrySpec == Init /\ [][NextRetry]_vars

\* ---- the pure transition functions on any pool ------------------------------
\* the entries a PoolState can hold: distinct keys of accepted api_keys, in the
\* order of insertion, which is the order in which their handles were made, and
\* times with created_at <= last_used
StorableKeys == {sha_key(r[1], r[2]) : r \in {q \in Requests : ~ApiKeyRejected(q[2])}}
Injections(n, S) == {f \in [1..n -> S] : \A i, j \in 1..n : i # j => f[i] # f[j]}
Increasing(n, S) == {f \in [1..n -> S] : \A i, j \in 1..n : i < j => f[i] < f[j]}
\* (created_at, last_used)
Lifetimes == {ts \in (1..MaxTime) \X (1..MaxTime) : ts[1] <= ts[2]}

PoolEntries ==
    UNION { { [i \in 1..n |-> Item(ks[i], cs[i], ts[i][2], ts[i][1])] :
                 ks \in Injections(n, StorableKeys), cs \in Increasing(n, Clients),
                 ts \in [1..n -> Lifetimes] }
            : n \in 0..Cardinality(StorableKeys) }

\* a pool given to evict_if_needed: any entries, any max_size
InitEvict ==
    /\ variant \in {"ClientPool", "client_pool"}
    /\ \E es \in PoolEntries : \E max_size \in 1..SeqMaxSize :
          state = PoolState(es, TtlSeconds, max_size)
    /\ lock = NoThread
    /\ closed = FALSE
    /\ clock = 1
    /\ next_client = 1
    /\ close_calls = [c \in Clients |-> 0]
    /\ pc = [t \in Threads |-> "idle"]
    /\ req = [t \in Threads |-> NoReq]
    /\ now = [t \in Threads |-> 0]
    /\ key = [t \in Threads |-> NoKey]
    /\ to_close = [t \in Threads |-> <<>>]
    /\ client = [t \in Threads |-> None]
    /\ result = [t \in Threads |-> NoResult]
    /\ entries_before = <<>>
    /\ live_at_shutdown = [t \in Threads |-> {}]
    /\ served = [k \in {} |-> Unserved]
    /\ shutdown_calls = 0
    /\ faulty = {}
    /\ retry = NotCalled

\* self._state, victims, victims_clients = evict_if_needed(self._state)
ApplyEvict ==
    /\ pc["t1"] = "idle"
    /\ LET r == evict_if_needed(state)
       IN  /\ state' = r[1]
           /\ to_close' = [to_close EXCEPT !["t1"] = r[3]]
    /\ entries_before' = state.entries
    /\ pc' = [pc EXCEPT !["t1"] = "evicted"]
    /\ UNCHANGED <<variant, faulty, retry, shutdown_calls, served, lock, closed, clock,
                   next_client, close_calls, req, now, key, client, result,
                   live_at_shutdown>>

EvictSpec == InitEvict /\ [][ApplyEvict]_vars

\* pool2, to_close = purge_expired(pool, now), at any `now`
ApplyPurge ==
    /\ pc["t1"] = "idle"
    /\ \E n \in 1..MaxTime :
          /\ now' = [now EXCEPT !["t1"] = n]
          /\ LET r == purge_expired(state, n)
             IN  /\ state' = r[1]
                 /\ to_close' = [to_close EXCEPT !["t1"] = r[2]]
    /\ entries_before' = state.entries
    /\ pc' = [pc EXCEPT !["t1"] = "purged"]
    /\ UNCHANGED <<variant, faulty, retry, shutdown_calls, served, lock, closed, clock,
                   next_client, close_calls, req, key, client, result,
                   live_at_shutdown>>

PurgeSpec == InitEvict /\ [][ApplyPurge]_vars

\* ---- what the claims speak of ---------------------------------------------
Quiescent == \A t \in Threads : pc[t] = "idle"
Produced == 1..(next_client - 1)
Stored == ClientsOf(state.entries)
InShutdown(t) ==
    pc[t] \in {"sd_set_closed", "sd_acquire", "sd_close", "sd_close_locked"}
\* thread t is about to invoke close() on the head of its list
Closing(t) ==
    /\ pc[t] \in {"close", "sd_close", "purge_close", "evict_close", "sd_close_locked"}
    /\ to_close[t] # <<>>
\* the handles thread t's call releases
Releasing(t) ==
    IF pc[t] \in {"close", "purge_close", "evict_close", "evict_pop"}
    THEN SeqRange(to_close[t]) ELSE {}

\* C1: a get_client call whose factory raises leaves the entries exactly as they
\* were when the call took the lock: nothing created, nothing removed.
C1_FailedGetLeavesPoolUnchanged ==
    [][\A t \in Threads :
          (pc[t] = "factory" /\ pc'[t] = "idle") => state'.entries = entries_before]_vars

\* C2: once no call is in progress, every handle that was made and is no longer
\* in the pool has had close() invoked exactly once.
C2_RemovedHandlesReleasedOnce ==
    Quiescent => \A c \in Produced \ Stored : close_calls[c] = 1

\* C3: the handle a get_client call is about to return is not among the handles
\* that same call releases.
C3_ReturnedHandleNotReleased ==
    \A t \in Threads : client[t] # None => client[t] \notin Releasing(t)

\* C4: no thread is inside the factory while it holds the lock.
C4_FactoryOutsideLock ==
    \A t \in Threads : pc[t] = "factory" => lock # t

\* C5: when a shutdown call has returned and no other shutdown is in progress,
\* no handle that was in the pool when it was called is still there: an entry
\* created after a shutdown is taken out by the next one.
C5_ShutdownTakesEveryEntry ==
    \A t \in Threads :
        (pc[t] = "idle" /\ result[t] = ShutdownDone
                       /\ \A u \in Threads : ~InShutdown(u))
            => live_at_shutdown[t] \cap Stored = {}

\* C6: no thread invokes close() while it holds the lock.
C6_ReleaseOutsideLock ==
    \A t \in Threads : Closing(t) => lock # t

\* C7: a get_client call with an empty api_key raises and changes nothing: it
\* never gets as far as the lock, the purge or the factory, and the step that
\* raises leaves the pool, the lock, the handles and their releases as they were.
C7_EmptyKeyRejected ==
    /\ [](\A t \in Threads : req[t] # NoReq => req[t][2] # "")
    /\ [][\A t \in Threads :
            (result'[t] = Raised("ValueError") /\ result[t] # Raised("ValueError"))
                => UNCHANGED <<state, lock, closed, next_client, close_calls, pc,
                               to_close, served>>]_vars

\* an empty-key call has raised and an expired entry is still in the pool
C7_Witness ==
    /\ Quiescent
    /\ \E t \in Threads : result[t] = Raised("ValueError")
    /\ \E i \in 1..Len(state.entries) :
          Expired(state.entries[i], clock, state.ttl_seconds)

\* C8: when a key is asked for again at most ttl after it was last served, and
\* was not evicted in between, the call does not invoke the factory and yields
\* the handle the key was last served with.
C8_SameHandleWithinTtl ==
    /\ [](\A t \in Threads :
            (pc[t] = "factory" /\ key[t] \in DOMAIN served)
                => \/ served[key[t]] = Unserved
                   \/ now[t] - served[key[t]].at > state.ttl_seconds)
    /\ [][\A k \in DOMAIN served :
            (/\ served[k] # Unserved
             /\ served'[k] # Unserved
             /\ served'[k] # served[k]
             /\ served'[k].at - served[k].at <= state.ttl_seconds)
                => /\ served'[k].client = served[k].client
                   /\ next_client' = next_client]_vars

\* a key made at one time was asked for again later, within ttl, and the call
\* returned the handle made first, the only handle made
C8_Witness ==
    /\ Quiescent
    /\ next_client = 2
    /\ \E i \in 1..Len(state.entries) :
          /\ state.entries[i].last_used > state.entries[i].created_at
          /\ served[state.entries[i].key] =
                [client |-> 1, at |-> state.entries[i].last_used]
          /\ result["t1"] = Returned(1)

\* C9: when two threads have concurrently made the first call for one uncached
\* key and both calls are over, exactly one of the handles made is stored and
\* every other has been released.
C9_RaceKeepsOneReleasesRest ==
    (Quiescent /\ \A t \in Threads : result[t] # NoResult)
        => /\ \A c \in Produced \ Stored : close_calls[c] = 1
           /\ Produced # {} => Cardinality(Stored) = 1

\* C10: whenever the lock is not held, so after every call that returned, the
\* pool holds at most max_size entries.
C10_CapacityBound ==
    lock = NoThread => Len(state.entries) <= state.max_size

\* a get_client call, at a time when nothing can have expired, has left the lock
\* with a full pool and an evicted handle to close
C10_Witness ==
    /\ lock = NoThread
    /\ clock = 1
    /\ Len(state.entries) = state.max_size
    /\ \E t \in Threads : pc[t] = "close" /\ to_close[t] # <<>>

\* the step in which thread t's call inserts the handle it made
Inserts(t) == pc[t] = "factory" /\ pc'[t] \in {"close", "evict_close"}
\* the step in which the head of thread t's list leaves the list
Dequeues(t) ==
    /\ pc[t] \in {"close", "evict_pop"}
    /\ to_close[t] # <<>>
    /\ to_close'[t] = Tail(to_close[t])

\* C11: when a call that purged nothing inserts a new key into a pool that holds
\* max_size entries, the one handle it queues for release belongs to an entry
\* that was in the pool with the smallest last_used of all, the new entry's
\* included; every other entry and the new one are in the pool afterwards; a
\* handle that leaves the queue has had close() invoked once and is not in the
\* pool; and the factory is never called for a key that is in the pool.
C11_LruEviction ==
    /\ [][\A t \in Threads :
            (Inserts(t) /\ to_close[t] = <<>>
                        /\ Len(state.entries) = state.max_size)
                => \E i \in 1..Len(state.entries) :
                      /\ to_close'[t] = <<state.entries[i].client>>
                      /\ \A j \in 1..Len(state.entries) :
                            state.entries[i].last_used <= state.entries[j].last_used
                      /\ state.entries[i].last_used <= now[t]
                      /\ \A j \in 1..Len(state.entries) :
                            j # i => \E m \in 1..Len(state'.entries) :
                                        state'.entries[m] = state.entries[j]
                      /\ key[t] \in KeysOf(state'.entries)]_vars
    /\ [][\A t \in Threads :
            Dequeues(t) => /\ close_calls'[Head(to_close[t])] = 1
                           /\ Head(to_close[t]) \notin ClientsOf(state'.entries)]_vars
    /\ [](\A t \in Threads : pc[t] = "factory" => key[t] \notin KeysOf(state.entries))

\* three keys went into a pool of two with nothing expired; the second handle
\* made, the least recently used, was released and the other two are stored
C11_Witness ==
    /\ Quiescent
    /\ state.max_size = 2
    /\ next_client = 4
    /\ Stored = {1, 3}
    /\ close_calls = [c \in Clients |-> IF c = 2 THEN 1 ELSE 0]
    /\ result["t1"] = Returned(3)
    /\ \A i \in 1..Len(state.entries) : state.entries[i].last_used = clock

\* thread t is inside a get_client call, past the check of the key
InGet(t) ==
    pc[t] \in {"acquire", "factory", "close", "purge_close", "evict_close", "evict_pop"}

\* the step in which thread t's get_client call purges, under the lock, the
\* entries that have expired at its `now`: none of them is in the pool afterwards
\* and the handle of each is queued for release
C12_PurgeRemovesExpired ==
    [][\A t \in Threads :
          (pc[t] = "acquire" /\ pc'[t] # "acquire")
              => \A i \in 1..Len(state.entries) :
                    Expired(state.entries[i], now[t], state.ttl_seconds)
                        => /\ state.entries[i].key \notin KeysOf(state'.entries) \ {key'[t]}
                           /\ state.entries[i].client \notin ClientsOf(state'.entries)
                           /\ state.entries[i].client \in SeqRange(to_close'[t])]_vars

\* a get_client call ends, by return or by exception, with every handle it
\* queued for release closed
C12_QueuedHandlesReleased ==
    [][\A t \in Threads :
          (InGet(t) /\ pc'[t] = "idle") => to_close[t] = <<>>]_vars

\* the handle a call returned has never been closed: the call for an expired key
\* made a new one
C12_ReturnedHandleIsLive ==
    \A t \in Threads :
        result[t].kind = "returned" => close_calls[result[t].client] = 0

\* C12: an entry expired at the `now` of a get_client call, for its own key or
\* another, is removed by that call and its handle is released by the time the
\* call ends; the handle a later call returns for that key is a new one, never
\* the released one.
C12_TtlExpiry ==
    /\ C12_PurgeRemovesExpired
    /\ C12_QueuedHandlesReleased
    /\ []C12_ReturnedHandleIsLive

\* the step in which thread t calls shutdown
CallsShutdown(t) ==
    /\ pc[t] = "idle"
    /\ live_at_shutdown'[t] = ClientsOf(state.entries)
    /\ \/ pc'[t] \in {"sd_set_closed", "sd_acquire"}
       \/ variant = "client_pool" /\ closed /\ result'[t] = ShutdownDone /\ clock' = clock

\* C13: when the caller, whose last call was a shutdown that has returned, calls
\* shutdown again, the pool is empty and every handle that was in the pool at the
\* first call has had close() invoked exactly once; a shutdown called on an empty
\* pool invokes no close() and leaves the pool empty; and every shutdown that runs
\* to its end has by then closed, once, each handle it found in the pool.
C13_IdempotentShutdown ==
    /\ [][\A t \in Threads :
            (CallsShutdown(t) /\ result[t] = ShutdownDone)
                => /\ state.entries = <<>>
                   /\ \A c \in live_at_shutdown[t] : close_calls[c] = 1
                   /\ live_at_shutdown'[t] = {}]_vars
    /\ [][\A t \in Threads :
            ((InShutdown(t) \/ CallsShutdown(t)) /\ live_at_shutdown'[t] = {})
                => close_calls' = close_calls /\ state'.entries = <<>>]_vars
    /\ [][\A t \in Threads :
            (InShutdown(t) /\ pc'[t] = "idle")
                => /\ state'.entries = <<>>
                   /\ \A c \in live_at_shutdown[t] : close_calls'[c] = 1]_vars

\* two handles were in the pool, unexpired, when shutdown was called; both are
\* closed once, and the shutdown called last found the pool empty and has returned
C13_Witness ==
    /\ Quiescent
    /\ clock = 1
    /\ state.max_size = 2
    /\ next_client = 3
    /\ close_calls = [c \in Clients |-> IF c \in {1, 2} THEN 1 ELSE 0]
    /\ result["t1"] = ShutdownDone
    /\ live_at_shutdown["t1"] = {}
    /\ state.entries = <<>>
    /\ variant \in {"ClientPool", "client_pool"}

\* how often handle c stands in thread t's list
TimesQueued(t, c) == Cardinality({i \in 1..Len(to_close[t]) : to_close[t][i] = c})

\* C14: close() is invoked on no handle more than once; a handle stands at most
\* once in the list of at most one call, and it has not been closed while it
\* stands there (llm_interface closes it just before it pops it).
C14_NoDoubleRelease ==
    \A c \in Clients :
        /\ close_calls[c] <= 1
        /\ \A t \in Threads :
              /\ TimesQueued(t, c) <= 1
              /\ TimesQueued(t, c) = 1
                    => /\ \A u \in Threads \ {t} : TimesQueued(u, c) = 0
                       /\ close_calls[c] = 1
                             => pc[t] = "evict_pop" /\ c = Head(to_close[t])

\* two shutdown calls are in progress at once, both past the lock, and the one
\* handle the pool held has been closed by one of them
C14_Witness ==
    /\ pc["t1"] \in {"sd_close", "sd_close_locked"}
    /\ pc["t2"] \in {"sd_close", "sd_acquire"}
    /\ lock # "t2"
    /\ variant = "llm_interface" \/ pc["t2"] = "sd_close"
    /\ clock = 1
    /\ next_client = 2
    /\ close_calls[1] = 1

\* C15: the step in which the factory's exception leaves get_client hands that
\* exception to the caller, and the state it leaves has no entry for the
\* requested key and no new handle.
C15_FactoryFailurePropagates ==
    [][\A t \in Threads :
          (pc[t] = "factory" /\ pc'[t] = "idle")
              => /\ result'[t] = Raised("FactoryError")
                 /\ key[t] \notin KeysOf(state'.entries)
                 /\ next_client' = next_client
                 /\ Stored' \subseteq Stored]_vars

\* a call's factory has raised while the pool held an entry for another key
C15_Witness ==
    /\ \E t \in Threads : pc[t] = "idle" /\ result[t] = Raised("FactoryError")
    /\ Len(state.entries) = 1
    /\ lock = NoThread

\* the step in which thread t invokes close() on handle c
Closes(t, c) ==
    /\ Closing(t)
    /\ c = Head(to_close[t])
    /\ close_calls'[c] = close_calls[c] + 1

\* C16: when the close() a call invokes raises, the call goes on: the handle it
\* will return and the rest of its list are as they were; no call ever ends with
\* the error of a close(); a get_client call that ends after its releases returns
\* its client, a shutdown call returns, and each has by then emptied its list.
C16_CloseFailureSwallowed ==
    /\ [][\A t \in Threads : \A c \in faulty :
            Closes(t, c)
                => /\ pc'[t] # "idle"
                   /\ result'[t] = result[t]
                   /\ client'[t] = client[t]
                   /\ to_close'[t] \in {to_close[t], Tail(to_close[t])}
                   /\ state' = state]_vars
    /\ [](\A t \in Threads : result[t] # Raised(CloseError))
    /\ [][\A t \in Threads :
            (pc[t] \in {"close", "evict_close", "purge_close"} /\ pc'[t] = "idle")
                => /\ result'[t].kind = "returned"
                   /\ pc[t] # "purge_close" => result'[t] = Returned(client[t])
                   /\ to_close[t] = <<>>]_vars
    /\ [][\A t \in Threads :
            (InShutdown(t) /\ pc'[t] = "idle")
                => result'[t] = ShutdownDone /\ to_close[t] = <<>>]_vars

\* of three handles the first two fail to close: the first was evicted by the
\* call that returned the third, the other two were in the pool at a shutdown,
\* the failing one first; all three have been closed and the shutdown returned
C16_Witness ==
    /\ Quiescent
    /\ faulty = {1, 2}
    /\ clock = 1
    /\ state.max_size = 2
    /\ close_calls = [c \in Clients |-> 1]
    /\ live_at_shutdown["t1"] = {2, 3}
    /\ result["t1"] = ShutdownDone

\* C17: every key in the pool is a provider paired with the SHA-256 digest of
\* one of the callers' api_keys and with nothing that is an api_key; the fields
\* of every entry are a handle and two times; and the key a call inserts its
\* handle under is that call's provider and the digest of that call's api_key.
C17_CredentialConfidentiality ==
    /\ [](\A i \in 1..Len(state.entries) :
            LET e == state.entries[i]
            IN  /\ e.key[1] \in ProviderName
                /\ e.key[2] \in {Sha256Hex(k) : k \in ApiKeys \ {""}}
                /\ e.key[2] \notin ApiKeys
                /\ e.client \in Clients
                /\ e.last_used \in 1..MaxTime
                /\ e.created_at \in 1..MaxTime)
    /\ [][\A t \in Threads :
            Inserts(t)
                => /\ key[t] = <<req[t][1], Sha256Hex(req[t][2])>>
                   /\ \A i \in 1..Len(state'.entries) :
                         state'.entries[i].client = next_client
                             => state'.entries[i].key = key[t]]_vars

\* the pool holds the handle made for ("anthropic", "sk-A") under the digest
C17_Witness ==
    /\ lock = NoThread
    /\ Len(state.entries) = 1
    /\ state.entries[1].key = <<"anthropic", "753fc23ae3c8">>
    /\ \E t \in Threads : result[t] = Returned(state.entries[1].client)

\* the body of ClientPool.get_client's `with self._lock` block run in one piece
\* on `pool`, `fresh` being what the factory returns: whether the key was found,
\* the state it leaves, the handles it collects in to_close, and its client
GetOutcome(pool, provider, api_key, call_now, fresh) ==
    LET r == ensure_entry(pool, provider, api_key, call_now)
        expired == [i \in 1..Len(r[4]) |-> EntryAt(pool.entries, r[4][i]).client]
    IN  IF r[1]
        THEN LET used == record_use(r[3], r[2], call_now)
             IN  [hit |-> TRUE, state |-> used, released |-> expired,
                  client |-> EntryAt(used.entries, r[2]).client]
        ELSE LET evicted == evict_if_needed(insert_entry(r[3], r[2], fresh, call_now))
             IN  [hit |-> FALSE, state |-> evicted[1],
                  released |-> expired \o evicted[3], client |-> fresh]

\* the outcome of thread t's call had it run on the entries `entries`
OutcomeFrom(entries, t, fresh) ==
    GetOutcome([state EXCEPT !.entries = entries], req[t][1], req[t][2], now[t], fresh)

\* ClientPool.get_client and client_pool's get_client decide, change the state,
\* collect the handles to release and pick their client as GetOutcome does, and
\* close what they collected
C18_LockVariantsAgree ==
    [][\A t \in Threads :
          /\ (pc[t] = "acquire" /\ pc'[t] = "close")
                => LET o == OutcomeFrom(state.entries, t, next_client)
                   IN  /\ o.hit
                       /\ state' = o.state
                       /\ to_close'[t] = o.released
                       /\ client'[t] = o.client
          /\ (pc[t] = "acquire" /\ pc'[t] = "factory")
                => ~OutcomeFrom(state.entries, t, next_client).hit
          /\ (pc[t] = "factory" /\ pc'[t] = "close")
                => LET o == OutcomeFrom(entries_before, t, next_client)
                   IN  /\ ~o.hit
                       /\ state' = o.state
                       /\ to_close'[t] = o.released
                       /\ client'[t] = o.client
          /\ (pc[t] = "close" /\ pc'[t] = "close" /\ clock' = clock)
                => /\ to_close[t] # <<>>
                   /\ to_close'[t] = Tail(to_close[t])
                   /\ close_calls' = [close_calls EXCEPT ![Head(to_close[t])] = 1]
                   /\ state' = state
          /\ (pc[t] = "close" /\ pc'[t] = "idle")
                => /\ to_close[t] = <<>>
                   /\ result'[t] = Returned(client[t])
                   /\ state' = state]_vars

\* llm_interface._get_client returns, on a hit and after a creation, with the
\* decision, the state and the client of GetOutcome, and with exactly the
\* handles GetOutcome collects closed by the call
C18_ModuleVariantAgrees ==
    [][\A t \in Threads :
          /\ (pc[t] \in {"purge_close", "evict_close"} /\ pc'[t] = "idle")
                => LET fresh == IF pc[t] = "evict_close" THEN client[t] ELSE next_client
                       o == OutcomeFrom(entries_before, t, fresh)
                   IN  /\ o.hit = (pc[t] = "purge_close")
                       /\ state' = o.state
                       /\ result'[t] = Returned(o.client)
                       /\ \A c \in ClientsOf(entries_before) \cup ClientsOf(state'.entries) :
                             close_calls'[c] = IF c \in SeqRange(o.released) THEN 1 ELSE 0
          /\ (pc[t] = "purge_close" /\ pc'[t] = "factory")
                => ~OutcomeFrom(entries_before, t, next_client).hit]_vars

\* C18: on each get_client call of a single caller every variant makes the
\* hit-or-create decision of GetOutcome, leaves the entries of GetOutcome and
\* releases the handles of GetOutcome: the three agree call by call.
C18_VariantsAgree == C18_LockVariantsAgree /\ C18_ModuleVariantAgrees

\* llm_interface has served three keys from a pool of two: the call for the
\* third closed the first handle and kept the other two
C18_Witness ==
    /\ variant = "llm_interface"
    /\ Quiescent
    /\ state.max_size = 2
    /\ ClientSeq(state.entries) = <<2, 3>>
    /\ close_calls = [c \in Clients |-> IF c = 1 THEN 1 ELSE 0]
    /\ result["t1"] = Returned(3)

\* C19: when a shutdown the pool runs by itself (the exit callback, the end of
\* the `with` block) has returned, the pool is empty and every handle that was
\* in it when the shutdown began has had close() invoked once.
C19_AutomaticShutdownReleasesAll ==
    \A t \in Threads :
        (pc[t] = "idle" /\ result[t] = ShutdownDone)
            => /\ state.entries = <<>>
               /\ \A c \in live_at_shutdown[t] : close_calls[c] = 1

\* how many calls of fn raise TimeoutError before the first that does not
RECURSIVE LeadingTimeouts(_)
LeadingTimeouts(script) ==
    IF script = <<>> \/ Head(script) # "TimeoutError" THEN 0
    ELSE 1 + LeadingTimeouts(Tail(script))

\* C20: fn is never called more than attempts times; when the wrapped call is
\* over and fn raised TimeoutError on its first k calls, then with k < attempts
\* fn was called k+1 times and the call returned what that call returned, or
\* raised what that call raised if it was not a TimeoutError, and with
\* k >= attempts fn was called attempts times and the call raised RuntimeError.
C20_WithRetry ==
    /\ retry.calls <= retry.attempts
    /\ (~retry.running /\ retry # NotCalled)
          => LET k == LeadingTimeouts(retry.script)
                 n == retry.attempts
             IN  IF k >= n
                 THEN /\ retry.calls = n
                      /\ retry.raised = "RuntimeError"
                      /\ retry.result = "None"
                 ELSE /\ retry.calls = k + 1
                      /\ IF retry.script[k + 1] \in FnReturns
                         THEN /\ retry.result = retry.script[k + 1]
                              /\ retry.raised = "None"
                         ELSE /\ retry.raised = retry.script[k + 1]
                              /\ retry.result = "None"

\* with attempts = 3, fn raised TimeoutError once and then returned "recovered":
\* the wrapper returned it after two calls
C20_Witness ==
    /\ ~retry.running
    /\ retry.attempts = 3
    /\ retry.script[1] = "TimeoutError"
    /\ retry.calls = 2
    /\ retry.result = "recovered"

\* the step in which thread t's get_client call finds its key in the pool
Hits(t) ==
    \/ pc[t] = "acquire" /\ pc'[t] = "close"
    \/ pc[t] = "purge_close" /\ pc'[t] = "idle"
\* the step in which thread t's get_client call goes on to the factory
Misses(t) ==
    \/ pc[t] = "acquire" /\ pc'[t] = "factory"
    \/ pc[t] = "purge_close" /\ pc'[t] = "factory"
\* the entries once thread t's call has purged: llm_interface has purged already
\* when it looks the key up
AfterPurge(t) ==
    IF pc[t] = "acquire" THEN purge_expired(state, now[t])[1].entries
    ELSE state.entries
\* the key of thread t's call
KeyOfCall(t) == sha_key(req[t][1], req[t][2])
\* what thread t's call will return
Answer(t) == IF pc'[t] = "idle" THEN result'[t].client ELSE client'[t]

\* C21: a get_client call takes the hit path exactly when the purged state holds
\* its key; the hit sets that entry's last_used to the call's `now`, keeps its
\* handle and created_at, answers with that handle, makes no handle, leaves the
\* other entries of the purged state as they are and queues nothing for release
\* but what the purge removed.
C21_CacheHit ==
    /\ [][\A t \in Threads :
            Hits(t)
                => LET k == KeyOfCall(t)
                       purged == AfterPurge(t)
                       old == EntryAt(purged, k)
                   IN  /\ k \in KeysOf(purged)
                       /\ Len(state'.entries) = Len(purged)
                       /\ \A i \in 1..Len(purged) :
                             state'.entries[i] =
                                IF purged[i].key = k
                                THEN Item(k, old.client, now[t], old.created_at)
                                ELSE purged[i]
                       /\ Answer(t) = old.client
                       /\ next_client' = next_client
                       /\ SeqRange(to_close'[t]) =
                             ClientsOf(state.entries) \ ClientsOf(purged)]_vars
    /\ [][\A t \in Threads : Misses(t) => KeyOfCall(t) \notin KeysOf(AfterPurge(t))]_vars

\* a call for the second of two keys came when the first had expired: it purged
\* the first, touched the second and returned its handle
C21_Witness ==
    /\ Quiescent
    /\ variant = "ClientPool"
    /\ state.max_size = 2
    /\ next_client = 3
    /\ close_calls = [c \in Clients |-> IF c = 1 THEN 1 ELSE 0]
    /\ Len(state.entries) = 1
    /\ state.entries[1].client = 2
    /\ state.entries[1].last_used > state.entries[1].created_at
    /\ result["t1"] = Returned(2)

\* what evict_if_needed does to `pool`
EvictsAsClaimed(pool) ==
    LET r == evict_if_needed(pool)
        es == pool.entries
        n == Len(es)
        removed == {i \in 1..n : es[i].key \in SeqRange(r[2])}
        kept == (1..n) \ removed
    IN  IF n <= pool.max_size
        THEN r = <<pool, <<>>, <<>>>>
        ELSE /\ Cardinality(removed) = n - pool.max_size
             /\ Len(r[2]) = n - pool.max_size
             /\ r[1] = [pool EXCEPT !.entries =
                          SelectSeq(es, LAMBDA e : e.key \notin SeqRange(r[2]))]
             /\ Len(r[1].entries) = pool.max_size
             /\ \A i \in removed : \A j \in kept :
                   /\ es[i].last_used <= es[j].last_used
                   /\ es[i].last_used = es[j].last_used => i < j
             /\ r[3] = [m \in 1..Len(r[2]) |-> EntryAt(es, r[2][m]).client]
             /\ SeqRange(r[3]) = {es[i].client : i \in removed}

\* C22: evict_if_needed leaves a pool within capacity as it is, with no victims;
\* from a pool over capacity it removes len(entries) - max_size entries, each
\* with a last_used at most that of every entry it keeps and, where equal, earlier
\* in the insertion order, and returns the keys and the handles of just those.
C22_EvictIfNeeded ==
    /\ pc["t1"] = "idle" => EvictsAsClaimed(state)
    /\ pc["t1"] = "evicted"
          => LET given == [state EXCEPT !.entries = entries_before]
             IN  /\ EvictsAsClaimed(given)
                 /\ state = evict_if_needed(given)[1]
                 /\ to_close["t1"] = evict_if_needed(given)[3]

\* from three entries in a pool of one, the one inserted first, which was used
\* last, has been kept and two handles returned, the least recently used first
C22_Witness ==
    /\ pc["t1"] = "evicted"
    /\ Len(entries_before) = 3
    /\ state.entries = <<entries_before[1]>>
    /\ entries_before[2].last_used > entries_before[3].last_used
    /\ to_close["t1"] = <<entries_before[3].client, entries_before[2].client>>

\* what purge_expired does to `pool` at time n
PurgesAsClaimed(pool, n) ==
    LET r == purge_expired(pool, n)
        es == pool.entries
    IN  /\ r[1] = [pool EXCEPT !.entries =
                     SelectSeq(es, LAMBDA e : n - e.last_used <= pool.ttl_seconds)]
        /\ r[2] = KeySeq(SelectSeq(es, LAMBDA e : n - e.last_used > pool.ttl_seconds))
        /\ \A i \in 1..Len(es) :
              n - es[i].last_used = pool.ttl_seconds
                  => \A q \in Requests :
                        sha_key(q[1], q[2]) = es[i].key
                            => ensure_entry(pool, q[1], q[2], n)[1]

\* C23: purge_expired(pool, now) keeps, in their order, exactly the entries with
\* now - last_used <= ttl_seconds and returns the keys of exactly the others; a
\* key whose entry has been idle for exactly ttl_seconds is found by ensure_entry.
C23_PurgeExpired ==
    /\ pc["t1"] = "idle" => \A n \in 1..MaxTime : PurgesAsClaimed(state, n)
    /\ pc["t1"] = "purged"
          => LET given == [state EXCEPT !.entries = entries_before]
             IN  /\ PurgesAsClaimed(given, now["t1"])
                 /\ state = purge_expired(given, now["t1"])[1]
                 /\ to_close["t1"] = purge_expired(given, now["t1"])[2]

\* a purge has removed one entry and kept another that had been idle for exactly
\* ttl_seconds
C23_Witness ==
    /\ pc["t1"] = "purged"
    /\ Len(state.entries) < Len(entries_before)
    /\ \E i \in 1..Len(state.entries) :
          now["t1"] - state.entries[i].last_used = state.ttl_seconds

\* the provider and the digest of the api_key of thread t's call
ProviderAndDigest(t) == <<req[t][1], Sha256Hex(req[t][2])>>

\* C24: no two entries of the pool have the same (provider, digest) key or the
\* same handle; a call is a hit only on the entry of its own provider and its
\* own api_key's digest, whose handle it answers with, and a miss only when the
\* purged pool has no such entry, whatever it holds for the same api_key under
\* another provider; and the insertion that follows a miss keeps, or evicts,
\* every such other entry: it never overwrites one.
C24_KeyIncludesProvider ==
    /\ [](\A i, j \in 1..Len(state.entries) :
            i # j => /\ state.entries[i].key # state.entries[j].key
                     /\ state.entries[i].client # state.entries[j].client)
    /\ [][\A t \in Threads :
            /\ Hits(t) => /\ ProviderAndDigest(t) \in KeysOf(AfterPurge(t))
                          /\ Answer(t) = EntryAt(AfterPurge(t), ProviderAndDigest(t)).client
            /\ Misses(t) => ProviderAndDigest(t) \notin KeysOf(AfterPurge(t))
            /\ Inserts(t)
                  => \A i \in 1..Len(state.entries) :
                        \/ \E j \in 1..Len(state'.entries) :
                              state'.entries[j] = state.entries[i]
                        \/ state.entries[i].client \in SeqRange(to_close'[t])]_vars

\* one api_key has been used under two providers: the pool holds two entries
\* with the same digest, and two handles have been made
C24_Witness ==
    /\ Quiescent
    /\ next_client = 3
    /\ Len(state.entries) = 2
    /\ state.entries[1].key[2] = state.entries[2].key[2]
    /\ state.entries[1].key[1] # state.entries[2].key[1]
    /\ state.entries[1].client # state.entries[2].client

\* handle c stands in the list of some call: it has been selected for release
Selected(c) == \E u \in Threads : c \in SeqRange(to_close[u])

\* C25: close() is invoked on a handle only when no entry of the pool holds it;
\* the handle a get_client call picks as its answer, by a hit or by inserting
\* it, has not been closed and stands in no call's list of handles to release;
\* and close() is invoked on no handle twice.
C25_ReleasedAfterRemoval ==
    /\ [][\A t \in Threads : \A c \in Clients :
            Closes(t, c) => c \notin Stored]_vars
    /\ [][\A t \in Threads :
            (Hits(t) \/ Inserts(t))
                => /\ close_calls'[Answer(t)] = 0
                   /\ ~Selected(Answer(t))
                   /\ \A u \in Threads : Answer(t) \notin SeqRange(to_close'[u])]_vars
    /\ [](\A c \in Clients : close_calls[c] <= 1)

\* what record_use(pool, k, n) may change: the last_used of the entry under k
RecordsAsClaimed(pool, k, n) ==
    LET r == record_use(pool, k, n)
        es == pool.entries
    IN  /\ r.ttl_seconds = pool.ttl_seconds
        /\ r.max_size = pool.max_size
        /\ k \notin KeysOf(es) => r = pool
        /\ Len(r.entries) = Len(es)
        /\ \A i \in 1..Len(es) :
              /\ r.entries[i].key = es[i].key
              /\ r.entries[i].client = es[i].client
              /\ r.entries[i].created_at = es[i].created_at
              /\ r.entries[i].last_used = IF es[i].key = k THEN n ELSE es[i].last_used

\* C26: record_use on the pool's state, for any key and any time, changes only
\* the last_used of the entry under that key and returns the state as it is for
\* an absent key; the hit of a get_client call changes the purged entries in
\* just that way; and no step changes ttl_seconds or max_size, or the created_at
\* of an entry that stays in the pool.
C26_RecordUseFrame ==
    /\ [](\A k \in PoolKeys : \A n \in 1..MaxTime : RecordsAsClaimed(state, k, n))
    /\ [][\A t \in Threads :
            Hits(t) => LET before == [state EXCEPT !.entries = AfterPurge(t)]
                       IN  /\ RecordsAsClaimed(before, ProviderAndDigest(t), now[t])
                           /\ state' = record_use(before, ProviderAndDigest(t), now[t])]_vars
    /\ [][/\ state'.ttl_seconds = state.ttl_seconds
          /\ state'.max_size = state.max_size
          /\ \A i \in 1..Len(state.entries) : \A j \in 1..Len(state'.entries) :
                (/\ state'.entries[j].key = state.entries[i].key
                 /\ state'.entries[j].client = state.entries[i].client)
                    => state'.entries[j].created_at = state.entries[i].created_at]_vars

\* an entry has been touched after the time it was created, next to an entry
\* that has not
C26_Witness ==
    /\ Quiescent
    /\ Len(state.entries) = 2
    /\ \E i, j \in 1..2 :
          /\ state.entries[i].last_used > state.entries[i].created_at
          /\ state.entries[j].last_used = state.entries[j].created_at

\* where a thread is while it is inside a `with lock` block
LockedPcs == {"factory", "purge_close", "evict_close", "evict_pop", "sd_close_locked"}

C28_LastUsedNeverDecreases ==
    [][\A i \in 1..Len(state.entries) : \A j \in 1..Len(state'.entries) :
          (/\ state'.entries[j].key = state.entries[i].key
           /\ state'.entries[j].client = state.entries[i].client)
              => state'.entries[j].last_used >= state.entries[i].last_used]_vars

\* C29: every entry of the pool has created_at <= last_used.
C29_CreatedBeforeLastUsed ==
    \A i \in 1..Len(state.entries) :
        state.entries[i].created_at <= state.entries[i].last_used

\* the entries a step takes out of the pool
Removed == {i \in 1..Len(state.entries) : state.entries[i].key \notin KeysOf(state'.entries)}

\* C30: the step in which a get_client call takes the lock and purges removes
\* only entries that are expired at the call's `now`, whether it goes on as a
\* hit or as a miss; a hit removes nothing else; the insertion after a miss
\* selects at most one more handle and removes at most one entry, and
\* llm_interface, which removes the selected entry in a step of its own, removes
\* one entry there and none when it inserts.
C30_AtMostOneEviction ==
    [][\A t \in Threads :
          /\ (pc[t] = "acquire" /\ pc'[t] # "acquire")
                => \A i \in Removed : Expired(state.entries[i], now[t], state.ttl_seconds)
          /\ (Hits(t) /\ pc[t] = "purge_close") => Removed = {}
          /\ Inserts(t)
                => /\ Cardinality(Removed) <= 1
                   /\ Len(to_close'[t]) <= Len(to_close[t]) + 1
                   /\ variant = "llm_interface" => Removed = {}
          /\ (pc[t] = "evict_pop" /\ pc'[t] # "evict_pop")
                => /\ Cardinality(Removed) <= 1
                   /\ to_close'[t] = <<>>]_vars

\* a miss at the time the pool was constructed, when nothing can be expired, has
\* inserted its handle into a full pool of two and selected one handle
C30_Witness ==
    /\ clock = 1
    /\ state.max_size = 2
    /\ Len(state.entries) = 2
    /\ next_client = 4
    /\ pc["t1"] \in {"close", "evict_close"}
    /\ client["t1"] = 3
    /\ Len(to_close["t1"]) = 1

====
